---- MODULE Spec2Model ----
(***************************************************************************)
(* Model of the Mancala core of binarybana/mancala_ai:                     *)
(*   - packed_actions.rs : Action, a deque of sub-moves packed in one u64  *)
(*   - mancala.rs        : GameState (the 14-slot board), the rule engine  *)
(*                         and ActionIter (the bonus-chain DFS generator)  *)
(*   - learning.rs       : the turn alternation of sarsa_loop              *)
(*   - player.rs, tui.rs : a game of two players and its report            *)
(* The specifications share the variables below:                           *)
(*   SpecPacked : push_front / pop_front on one Action                     *)
(*   SpecGen    : repeated next() on one ActionIter over a base board      *)
(*   SpecChain  : one ActionIter run to its first None on boards with long *)
(*                bonus chains                                             *)
(*   SpecPlay   : two players alternating complete turns                   *)
(*   SpecDeque  : push_front / pop_front / pop_back in any order           *)
(*   SpecBoard  : swap_board / is_won / finalize_game on one GameState     *)
(*   SpecEval   : evaluate_subaction / evaluate_action on one GameState    *)
(*   SpecGame   : one game between a human and an AI player, to its report *)
(*   SpecGameLive : the same game from an end-game board, with fairness    *)
(*   SpecPick   : pick_action on one GameState and one value table         *)
(***************************************************************************)
EXTENDS Integers, Sequences, FiniteSets, TLC

VARIABLES
    q,            \* SpecPacked: the Action under test (a u64 word)
    pushed,       \* SpecPacked: sub-moves given to push_front, in call order
    popped,       \* SpecPacked: sub-moves returned by pop_front, in call order
    base_state,   \* SpecGen: ActionIter.base_state
    action,       \* SpecGen: ActionIter.action
    state_stack,  \* SpecGen: ActionIter.state_stack
    ret,          \* SpecGen: what the last call of next() returned
    yielded,      \* SpecGen: the Actions returned before the first None
    exhausted,    \* SpecGen: next() has returned None at least once
    panicked,     \* SpecGen: an assertion of the iterator failed
    cur_state,    \* SpecPlay: current_player.curr_state
    opp_state,    \* SpecPlay: opposing_player.curr_state
    counter,      \* SpecPlay: sarsa_loop's turn counter
    dq,           \* SpecDeque: the Action under test (a u64 word)
    held,         \* SpecDeque: a reference deque, oldest sub-move first
    dq_op,        \* SpecDeque: the last call made on dq
    dq_arg,       \* SpecDeque: the argument of the last push_front
    dq_ret,       \* SpecDeque: what the last pop returned
    ref_ret,      \* SpecDeque: what the reference deque gave for that pop
    dq_outcome,   \* SpecDeque: how the last call ended
    n_push,       \* SpecDeque: push_front calls that returned
    n_pop,        \* SpecDeque: pops of a non-empty Action that returned
    dq_calls,     \* SpecDeque: calls made since the Action was handed over
    board,        \* SpecBoard: the GameState under test
    b_op,         \* SpecBoard: the last call made on board
    b_prev,       \* SpecBoard: the board before the last call
    b_prev_op,    \* SpecBoard: the call made before the last one
    b_prev2,      \* SpecBoard: the board before that call
    won,          \* SpecBoard: what the last is_won() returned
    b_panicked,   \* SpecBoard: finalize_game's assertion failed
    b_calls,      \* SpecBoard: number of calls made
    e_board,      \* SpecEval: the GameState the call is made on
    e_prev,       \* SpecEval: that GameState before the call
    e_op,         \* SpecEval: the call made
    e_sub,        \* SpecEval: the argument of evaluate_subaction
    e_list,       \* SpecEval: the sub-moves pushed on the Action argument
    e_ret,        \* SpecEval: the GameState evaluate_to_new_state returned
    e_panicked,   \* SpecEval: the call panicked
    g_start,      \* SpecGame: the starting_state the players were built from
    g_human,      \* SpecGame: the human player's curr_state (App.game_state)
    g_ai,         \* SpecGame: the AI player's curr_state
    g_human_turn, \* SpecGame: the human is p1, the player to move
    g_prev,       \* SpecGame: the mover's board before the last turn
    g_turns,      \* SpecGame: turns played
    g_phase,      \* SpecGame: "playing", "ended" or "reported"
    g_by,         \* SpecGame: the code that handled the end of the game
    g_final,      \* SpecGame: the finalized board that was reported
    g_msg,        \* SpecGame: the result reported to the human
    p_state,      \* SpecPick: the GameState pick_action is called on
    values,       \* SpecPick: the value table, a map from boards to values
    p_inserts,    \* SpecPick: values.insert calls made
    p_epsilon,    \* SpecPick: the epsilon of the last pick_action
    p_op,         \* SpecPick: the last call made
    p_ret,        \* SpecPick: the (Action, value) pair pick_action returned
    p_panicked    \* SpecPick: pick_action's assertion failed

vars == <<q, pushed, popped, base_state, action, state_stack, ret, yielded,
          exhausted, panicked, cur_state, opp_state, counter,
          dq, held, dq_op, dq_arg, dq_ret, ref_ret, dq_outcome, n_push, n_pop,
          dq_calls,
          board, b_op, b_prev, b_prev_op, b_prev2, won, b_panicked, b_calls,
          e_board, e_prev, e_op, e_sub, e_list, e_ret, e_panicked,
          g_start, g_human, g_ai, g_human_turn, g_prev, g_turns, g_phase, g_by,
          g_final, g_msg,
          p_state, values, p_inserts, p_epsilon, p_op, p_ret, p_panicked>>

packedVars == <<q, pushed, popped>>
genVars == <<base_state, action, state_stack, ret, yielded, exhausted, panicked>>
playVars == <<cur_state, opp_state, counter>>
dequeVars == <<dq, held, dq_op, dq_arg, dq_ret, ref_ret, dq_outcome, n_push, n_pop,
               dq_calls>>
boardVars == <<board, b_op, b_prev, b_prev_op, b_prev2, won, b_panicked, b_calls>>
evalVars == <<e_board, e_prev, e_op, e_sub, e_list, e_ret, e_panicked>>
gameVars == <<g_start, g_human, g_ai, g_human_turn, g_prev, g_turns, g_phase, g_by,
              g_final, g_msg>>
pickVars == <<p_state, values, p_inserts, p_epsilon, p_op, p_ret, p_panicked>>

(***************************************************************************)
(* Bounds of the model                                                     *)
(***************************************************************************)
\* SpecPacked: pushes made while the Action is shorter than this take any
\* sub-move 0..5; later pushes take the one sub-move FillSub gives.
MaxFree == 2
\* SpecGen: the mover's houses of a base board hold at most this many seeds in all.
MaxMoverSeeds == 5
\* SpecGen: next() is not called again once this many Actions were yielded.
MaxYield == 20
\* SpecPlay: number of complete turns played.
MaxTurns == 3
\* SpecDeque: number of calls made on one Action.
MaxOps == 8
\* SpecBoard: one side of an input board holds at most this many seeds in its
\* houses, and each store at most MaxStore.
MaxSideSeeds == 2
MaxStore == 2
\* SpecBoard: number of calls made on one board.
MaxCalls == 2
\* SpecEval: the house that an input board varies holds at most this many seeds.
MaxHouseSeeds == 20
\* SpecEval: number of sub-moves of an Action argument, and the most seeds in
\* a house 0..5 of a board that an Action is played on.
MaxSeqLen == 2
MaxSeqHouse == 6
\* SpecChain: the largest number of seeds on the mover's side of a board built
\* for a long bonus chain.
MaxChainSeeds == 17
\* SpecGame: number of turns played in one game from new(1), and in one game
\* from a board with 48 seeds.
MaxGameTurns == 4
MaxLongGameTurns == 2
\* SpecGameLive: more turns than the longest game from EndGame has (17).
MaxEndGameTurns == 18
\* SpecPick: number of values.insert calls before pick_action.
MaxInserts == 2

(***************************************************************************)
(* Program constants                                                       *)
(***************************************************************************)
MAX_LEN == 19
LEN_OFFSET == 57
VEC_EL_BITWIDTH == 3
WordBits == 64

None == << >>
Some(x) == << x >>

(***************************************************************************)
(* u64 words, each written as the set of the positions of its 1 bits       *)
(* (position 0 is the least significant): 5 is {0, 2}, 1 << 57 is {57}.    *)
(***************************************************************************)
BitIdx == 0 .. (WordBits - 1)

\* The u64 holding the small number n (n < 2^16).
Word(n) == {i \in 0 .. 15 : (n \div (2 ^ i)) % 2 = 1}

BitAnd(a, b) == a \cap b
BitOr(a, b) == a \cup b
\* a << k and a >> k on u64: bits shifted out are lost.
Shl(a, k) == {i + k : i \in {j \in a : j + k < WordBits}}
Shr(a, k) == {i - k : i \in {j \in a : j >= k}}
\* (1 << k) - 1
LowMask(k) == 0 .. (k - 1)
\* The number held by the low 8 bits (the casts `as u32` of a 7-bit length and
\* `as SubAction` of a 3-bit element lose nothing).
RECURSIVE LowBits(_, _)
LowBits(a, i) ==
    IF i > 7 THEN 0 ELSE (IF i \in a THEN 2 ^ i ELSE 0) + LowBits(a, i + 1)

Low8(a) == LowBits(a, 0)

VEC_MASK == LowMask(57)

(***************************************************************************)
(* packed_actions.rs: Action                                               *)
(***************************************************************************)
ActionNew == Word(0)

Length(a) == Low8(Shr(a, LEN_OFFSET))

IsEmpty(a) == Length(a) = 0

\* A faulty capacity test that lets one push too many through.
PushFrontPanicsLate(a, sub) == ~(sub < 7) \/ ~(Length(a) <= MAX_LEN)

\* push_front's two assertions.
PushFrontPanics(a, sub) == ~(sub < 7) \/ ~(Length(a) + 1 <= MAX_LEN)

PushFront(a, sub) ==
    LET new_len == Length(a) + 1
    IN  BitOr(BitOr(Shl(BitAnd(a, VEC_MASK), VEC_EL_BITWIDTH), Word(sub)),
              Shl(Word(new_len), LEN_OFFSET))

Singleton(sub) == PushFront(ActionNew, sub)

RECURSIVE PushAll(_, _)
\* push_front of the sub-moves of list, in order, on the Action a.
PushAll(a, list) ==
    IF list = << >> THEN a ELSE PushAll(PushFront(a, Head(list)), Tail(list))

\* A faulty pop_front that reads the element one place too high.
PopFrontValueSkew(a) ==
    LET mask_length == Length(a) * VEC_EL_BITWIDTH
    IN  Low8(Shr(BitAnd(a, Shl(Word(7), mask_length)), mask_length))

\* pop_front, for a non-empty Action: the element returned ...
PopFrontValue(a) ==
    LET new_len == Length(a) - 1
        mask_length == new_len * VEC_EL_BITWIDTH
    IN  Low8(Shr(BitAnd(a, Shl(Word(7), mask_length)), mask_length))

\* ... and the Action left behind.  pop_mask keeps mask_length + 1 bits.
PopFrontRest(a) ==
    LET new_len == Length(a) - 1
        mask_length == new_len * VEC_EL_BITWIDTH
        pop_mask == LowMask(mask_length + 1)
    IN  BitOr(BitAnd(a, pop_mask), Shl(Word(new_len), LEN_OFFSET))

\* A faulty pop_back that reads the second element from the back.
PopBackValueSecond(a) == Low8(Shr(BitAnd(a, Shl(Word(7), VEC_EL_BITWIDTH)), VEC_EL_BITWIDTH))

\* pop_back: the element returned (also on an empty Action, when the call
\* goes through) ...
PopBackValue(a) == Low8(BitAnd(a, Word(7)))

PopBackRest(a) ==
    LET new_len == Length(a) - 1
    IN  BitOr(Shr(BitAnd(a, VEC_MASK), VEC_EL_BITWIDTH),
              Shl(Word(new_len), LEN_OFFSET))

\* `self.length() - 1` on an empty Action is 0u32 - 1.  A build with overflow
\* checks panics there; a build without them goes on with the u32 wrapped to
\* 2^32 - 1, which `as u64` widens to the word with bits 0..31 set.
WrappedLen == LowMask(32)

\* Without overflow checks a shift by k >= 64 shifts by k % 64.  In pop_front
\* mask_length = new_len * 3 with new_len = 2^32 - 1, and (2^32 - 1) % 64 = 63.
WrappedMaskLength == (63 * VEC_EL_BITWIDTH) % WordBits

\* pop_front on an empty Action in a build without overflow checks.
PopFrontValueWrapped(a) ==
    Low8(Shr(BitAnd(a, Shl(Word(7), WrappedMaskLength)), WrappedMaskLength))

PopFrontRestWrapped(a) ==
    LET pop_mask == LowMask((WrappedMaskLength + 1) % WordBits)
    IN  BitOr(BitAnd(a, pop_mask), Shl(WrappedLen, LEN_OFFSET))

\* pop_back on an empty Action in a build without overflow checks.
PopBackRestWrapped(a) ==
    BitOr(Shr(BitAnd(a, VEC_MASK), VEC_EL_BITWIDTH), Shl(WrappedLen, LEN_OFFSET))

\* The sub-moves of an Action, first played first, read as Display::fmt reads
\* them: pop_front on a copy until it is empty.
RECURSIVE ToList(_)
ToList(a) ==
    IF IsEmpty(a) THEN << >>
    ELSE << PopFrontValue(a) >> \o ToList(PopFrontRest(a))

(***************************************************************************)
(* mancala.rs: GameState and the rule engine                               *)
(***************************************************************************)
NumSlots == 14
Slots == 0 .. (NumSlots - 1)
SubMoves == 0 .. 5

\* A board is the tuple of its 14 slots; houses[i] of the source is Slot(h, i).
Slot(h, i) == h[i + 1]
SetSlot(h, i, v) == [h EXCEPT ![i + 1] = v]

New(starting_seeds) ==
    LET slot(i) == IF i = 6 \/ i = 13 THEN 0 ELSE starting_seeds
    IN  [k \in 1 .. NumSlots |-> slot(k - 1)]

RECURSIVE SumSlots(_, _, _)
\* houses[lo..hi].iter().sum(), hi exclusive
SumSlots(h, lo, hi) ==
    IF lo >= hi THEN 0 ELSE Slot(h, lo) + SumSlots(h, lo + 1, hi)

TotalSeeds(h) == SumSlots(h, 0, NumSlots)

\* A faulty test that needs both sides to be empty.
IsEndedBothEmpty(h) == SumSlots(h, 0, 6) = 0 /\ SumSlots(h, 7, 13) = 0

IsEnded(h) ==
    LET p1_tot == SumSlots(h, 0, 6)
        p2_tot == SumSlots(h, 7, 13)
    IN  p1_tot = 0 \/ p2_tot = 0

RECURSIVE SowLoopNoSkip(_, _, _, _)
\* A faulty sowing loop that does not skip the opponent's store.
SowLoopNoSkip(h, i, end_house, offset) ==
    IF i > end_house THEN h
    ELSE LET at == i % 14
         IN  SowLoopNoSkip(SetSlot(h, at, Slot(h, at) + 1), i + 1, end_house, offset)

RECURSIVE SowLoop(_, _, _, _)
\* for i in action + 1..end_house + 1 { ... }
SowLoop(h, i, end_house, offset) ==
    IF i > end_house THEN h
    ELSE IF i > 0 /\ i % 13 = 0
         THEN SowLoop(SetSlot(h, 0, Slot(h, 0) + 1), i + 1, end_house, offset + 1)
         ELSE LET at == (i + offset) % 14
              IN  SowLoop(SetSlot(h, at, Slot(h, at) + 1), i + 1, end_house, offset)

\* Outcome
P1win == "P1win"
P2win == "P2win"
Tie == "Tie"

\* A faulty is_won that compares the stores alone.
IsWonStoresOnly(h) ==
    LET p1_tot == SumSlots(h, 0, 6)
        p2_tot == SumSlots(h, 7, 13)
    IN  IF p1_tot # 0 /\ p2_tot # 0 THEN None
        ELSE IF Slot(h, 6) > Slot(h, 13) THEN Some(P1win)
        ELSE IF Slot(h, 13) > Slot(h, 6) THEN Some(P2win)
        ELSE Some(Tie)

\* A faulty is_won that gives an even game to the first player.
IsWonTieToP1(h) ==
    LET p1_tot == SumSlots(h, 0, 6)
        p2_tot == SumSlots(h, 7, 13)
    IN  IF p1_tot # 0 /\ p2_tot # 0 THEN None
        ELSE IF p1_tot + Slot(h, 6) >= p2_tot + Slot(h, 13) THEN Some(P1win)
        ELSE Some(P2win)

IsWon(h) ==
    LET p1_tot == SumSlots(h, 0, 6)
        p2_tot == SumSlots(h, 7, 13)
    IN  IF p1_tot # 0 /\ p2_tot # 0 THEN None
        ELSE LET p1_all == p1_tot + Slot(h, 6)
                 p2_all == p2_tot + Slot(h, 13)
             IN  IF p1_all > p2_all THEN Some(P1win)
                 ELSE IF p2_all > p1_all THEN Some(P2win)
                 ELSE Some(Tie)

\* A faulty finalize_game without its assertion.
FinalizeGameNeverPanics(h) == FALSE

\* finalize_game's assertion fails.
FinalizeGamePanics(h) ==
    LET p1_empty == SumSlots(h, 0, 6) = 0
        p2_empty == SumSlots(h, 7, 13) = 0
    IN  ~(p1_empty \/ p2_empty)

RECURSIVE SweepLoopKeepsHouses(_, _, _, _)
\* A faulty sweep that leaves the seeds in the houses it sweeps.
SweepLoopKeepsHouses(h, i, hi, store) ==
    IF i >= hi THEN h
    ELSE SweepLoopKeepsHouses(SetSlot(h, store, Slot(h, store) + Slot(h, i)),
                              i + 1, hi, store)

RECURSIVE SweepLoop(_, _, _, _)
\* for i in lo..hi { houses[store] += houses[i]; houses[i] = 0; }
SweepLoop(h, i, hi, store) ==
    IF i >= hi THEN h
    ELSE SweepLoop(SetSlot(SetSlot(h, store, Slot(h, store) + Slot(h, i)), i, 0),
                   i + 1, hi, store)

\* A faulty finalize_game that sweeps houses 7..12 whichever side is empty.
FinalizeGameSecondSideOnly(h) == SweepLoop(h, 7, 13, 13)

\* finalize_game once its assertion has passed.
FinalizeGame(h) ==
    LET p1_empty == SumSlots(h, 0, 6) = 0
        p2_empty == SumSlots(h, 7, 13) = 0
    IN  IF p1_empty THEN SweepLoop(h, 7, 13, 13)
        ELSE IF p2_empty THEN SweepLoop(h, 0, 6, 6)
        ELSE h

\* evaluate_subaction fails before it changes the board: its assertion, or
\* the bounds check of self.houses[action].
EvaluateSubactionPanics(h, subaction) ==
    ~(subaction # 6 /\ subaction # 13) \/ ~(subaction < NumSlots)

\* `action + seeds % 14` is action + (seeds % 14).
EndHouse(h, subaction) == subaction + (Slot(h, subaction) % 14)

\* evaluate_subaction up to its capture rule: the seeds are picked up and sown.
SowSeeds(h, subaction) ==
    LET house == subaction
        picked == SetSlot(h, house, 0)
    IN  SowLoop(picked, house + 1, EndHouse(h, subaction), 0)

RECURSIVE LastSownLoop(_, _, _, _)
\* The slot the sowing loop adds its last seed to (None while it added none).
LastSownLoop(i, end_house, offset, last) ==
    IF i > end_house THEN last
    ELSE IF i > 0 /\ i % 13 = 0
         THEN LastSownLoop(i + 1, end_house, offset + 1, Some(0))
         ELSE LastSownLoop(i + 1, end_house, offset, Some((i + offset) % 14))

LastSownSlot(h, subaction) ==
    LastSownLoop(subaction + 1, EndHouse(h, subaction), 0, None)

\* A faulty capture rule that does not look at the number of seeds landed on.
EvaluateSubactionCaptureAny(h, subaction) ==
    LET end_house == EndHouse(h, subaction)
        sown == SowSeeds(h, subaction)
    IN  IF end_house < 6
        THEN LET opposing_house == 12 - end_house
                 stored == SetSlot(sown, 6, Slot(sown, 6) + 1 + Slot(sown, opposing_house))
             IN  SetSlot(SetSlot(stored, end_house, 0), opposing_house, 0)
        ELSE sown

\* A faulty capture rule that credits the capture to the other store.
EvaluateSubactionCaptureToOpp(h, subaction) ==
    LET end_house == EndHouse(h, subaction)
        sown == SowSeeds(h, subaction)
    IN  IF end_house < 6 /\ Slot(sown, end_house) = 1
        THEN LET opposing_house == 12 - end_house
                 stored == SetSlot(sown, 13, Slot(sown, 13) + 1 + Slot(sown, opposing_house))
             IN  SetSlot(SetSlot(stored, end_house, 0), opposing_house, 0)
        ELSE sown

\* evaluate_subaction for a sub-move that passes its assertion and the bounds
\* check.
EvaluateSubaction(h, subaction) ==
    LET end_house == EndHouse(h, subaction)
        sown == SowSeeds(h, subaction)
    IN  IF end_house < 6 /\ Slot(sown, end_house) = 1
        THEN LET opposing_house == 12 - end_house
                 stored == SetSlot(sown, 6, Slot(sown, 6) + 1 + Slot(sown, opposing_house))
             IN  SetSlot(SetSlot(stored, end_house, 0), opposing_house, 0)
        ELSE sown

\* A faulty predicate that forgets the house index.
IsRenewingNoOffset(h, sub) == Slot(h, sub) = 6

IsRenewingSubaction(h, sub) == Slot(h, sub) + sub = 6

EvalResult(h, p) == [board |-> h, panic |-> p]

RECURSIVE EvaluateActionFromBack(_, _)
\* A faulty evaluate_action that takes the sub-moves from the other end.
EvaluateActionFromBack(h, action_list) ==
    LET subaction == PopBackValue(action_list)
        rest == PopBackRest(action_list)
    IN  IF EvaluateSubactionPanics(h, subaction) THEN EvalResult(h, TRUE)
        ELSE LET h2 == EvaluateSubaction(h, subaction)
             IN  IF IsEmpty(rest) THEN EvalResult(h2, FALSE)
                 ELSE EvaluateActionFromBack(h2, rest)

RECURSIVE EvaluateActionRun(_, _)
\* evaluate_action on a non-empty Action:
\* loop { pop_front; evaluate_subaction; if is_empty { break } }
\* The board it leaves, and whether a call of evaluate_subaction panicked.
EvaluateActionRun(h, action_list) ==
    LET subaction == PopFrontValue(action_list)
        rest == PopFrontRest(action_list)
    IN  IF EvaluateSubactionPanics(h, subaction) THEN EvalResult(h, TRUE)
        ELSE LET h2 == EvaluateSubaction(h, subaction)
             IN  IF IsEmpty(rest) THEN EvalResult(h2, FALSE)
                 ELSE EvaluateActionRun(h2, rest)

\* evaluate_action where no sub-move panics (sub-moves 0..5).
EvaluateAction(h, action_list) == EvaluateActionRun(h, action_list).board

\* A faulty swap that turns the board by six slots.
SwapBoardBySix(h) ==
    LET slot(i) == Slot(h, (i + 6) % 14)
    IN  [k \in 1 .. NumSlots |-> slot(k - 1)]

\* A faulty swap that leaves the two stores where they are.
SwapBoardHousesOnly(h) ==
    LET slot(i) == IF i = 6 \/ i = 13 THEN Slot(h, i) ELSE Slot(h, (i + 7) % 14)
    IN  [k \in 1 .. NumSlots |-> slot(k - 1)]

\* for i in 0..n / 2: houses[i] and houses[n / 2 + i] trade places
SwapBoard(h) ==
    LET slot(i) == Slot(h, (i + 7) % 14)
    IN  [k \in 1 .. NumSlots |-> slot(k - 1)]

\* A faulty scan that does not test for seeds.
FindNextAnyHouse(h, search_start) ==
    IF search_start < 6 THEN Some(search_start) ELSE None

\* A faulty scan that starts one house too far.
FindNextSkipsStart(h, search_start) ==
    LET found == {index \in SubMoves : index > search_start /\ Slot(h, index) > 0}
    IN  IF found = {} THEN None
        ELSE Some(CHOOSE index \in found : \A other \in found : index <= other)

\* for index in search_start..6: the first house holding seeds
FindNextSubaction(h, search_start) ==
    LET found == {index \in SubMoves : index >= search_start /\ Slot(h, index) > 0}
    IN  IF found = {} THEN None
        ELSE Some(CHOOSE index \in found : \A other \in found : index <= other)

(***************************************************************************)
(* mancala.rs: ActionIter                                                  *)
(***************************************************************************)
GetCurrentState(base, stack) ==
    IF stack = << >> THEN base ELSE stack[Len(stack)]

IterResult(act, stack, r, p) ==
    [action |-> act, state_stack |-> stack, ret |-> r, panic |-> p]

\* A faulty descent that stops at the first sub-move, renewing or not.
NtsLoopStopsAtFirst(act, stack, curr_state, search) ==
    IF search = None THEN IterResult(act, stack, Some(act), FALSE)
    ELSE LET pushed_act == PushFront(act, search[1])
         IN  IterResult(pushed_act, stack, Some(pushed_act), FALSE)

RECURSIVE NtsLoopKeepsState(_, _, _, _)
\* A faulty descent that does not apply the renewing sub-move to curr_state.
NtsLoopKeepsState(act, stack, curr_state, search) ==
    IF search = None THEN IterResult(act, stack, Some(act), FALSE)
    ELSE LET sub == search[1]
         IN  IF PushFrontPanics(act, sub) THEN IterResult(act, stack, None, TRUE)
             ELSE LET pushed_act == PushFront(act, sub)
                  IN  IF IsRenewingSubaction(curr_state, sub)
                      THEN NtsLoopKeepsState(pushed_act, Append(stack, curr_state),
                                             curr_state, FindNextSubaction(curr_state, 0))
                      ELSE IterResult(pushed_act, stack, Some(pushed_act), FALSE)

RECURSIVE NtsLoop(_, _, _, _)
\* The while-let loop of next_terminal_state.
NtsLoop(act, stack, curr_state, search) ==
    IF search = None THEN IterResult(act, stack, Some(act), FALSE)
    ELSE LET sub == search[1]
         IN  IF PushFrontPanics(act, sub) THEN IterResult(act, stack, None, TRUE)
             ELSE LET pushed_act == PushFront(act, sub)
                  IN  IF IsRenewingSubaction(curr_state, sub)
                      THEN LET next_state == EvaluateSubaction(curr_state, sub)
                           IN  NtsLoop(pushed_act, Append(stack, next_state),
                                       next_state, FindNextSubaction(next_state, 0))
                      ELSE IterResult(pushed_act, stack, Some(pushed_act), FALSE)

\* next_terminal_state(first_sub) followed by `return Some(self.action)`.
NextTerminalState(base, act, stack, first_sub) ==
    NtsLoop(act, stack, GetCurrentState(base, stack), Some(first_sub))

RECURSIVE AdvanceLoop(_, _, _)
\* A faulty advance that searches again from the sub-move just popped.
AdvanceLoopSameSub(base, act, stack) ==
    IF IsEmpty(act) THEN IterResult(act, stack, None, TRUE)
    ELSE LET curr_state == GetCurrentState(base, stack)
             prev_subaction == PopBackValue(act)
             popped_act == PopBackRest(act)
             found == FindNextSubaction(curr_state, prev_subaction)
         IN  IF found # None
             THEN NextTerminalState(base, popped_act, stack, found[1])
             ELSE IF stack = << >> \/ IsEnded(curr_state)
                  THEN IterResult(popped_act, stack, None, FALSE)
                  ELSE AdvanceLoop(base, popped_act, SubSeq(stack, 1, Len(stack) - 1))

\* The loop of next() taken when self.action is not empty.
AdvanceLoop(base, act, stack) ==
    IF IsEmpty(act) THEN IterResult(act, stack, None, TRUE)
    ELSE LET curr_state == GetCurrentState(base, stack)
             prev_subaction == PopBackValue(act)
             popped_act == PopBackRest(act)
             found == FindNextSubaction(curr_state, prev_subaction + 1)
         IN  IF found # None
             THEN NextTerminalState(base, popped_act, stack, found[1])
             ELSE IF stack = << >> \/ IsEnded(curr_state)
                  THEN IterResult(popped_act, stack, None, FALSE)
                  ELSE AdvanceLoop(base, popped_act, SubSeq(stack, 1, Len(stack) - 1))

\* ActionIter::next
IterNext(base, act, stack) ==
    IF IsEmpty(act)
    THEN LET found == FindNextSubaction(base, 0)
         IN  IF found # None
             THEN NextTerminalState(base, act, stack, found[1])
             ELSE IterResult(act, stack, None, FALSE)
    ELSE AdvanceLoop(base, act, stack)

RECURSIVE CollectLoop(_, _, _, _)
CollectLoop(base, act, stack, acc) ==
    LET r == IterNext(base, act, stack)
    IN  IF r.panic \/ r.ret = None THEN acc
        ELSE CollectLoop(base, r.action, r.state_stack, Append(acc, r.ret[1]))

\* gen_actions() consumed to its first None, as collect() and `for` do.
GenActions(base) == CollectLoop(base, ActionNew, << >>, << >>)

(***************************************************************************)
(* The variables of a specification that is not running                    *)
(***************************************************************************)
DequeIdle ==
    /\ dq = ActionNew
    /\ held = << >>
    /\ dq_op = "new"
    /\ dq_arg = 0
    /\ dq_ret = None
    /\ ref_ret = None
    /\ dq_outcome = "ok"
    /\ n_push = 0
    /\ n_pop = 0
    /\ dq_calls = 0

BoardIdle ==
    /\ board = New(0)
    /\ b_op = "new"
    /\ b_prev = New(0)
    /\ b_prev_op = "new"
    /\ b_prev2 = New(0)
    /\ won = None
    /\ b_panicked = FALSE
    /\ b_calls = 0

EvalIdle ==
    /\ e_board = New(0)
    /\ e_prev = New(0)
    /\ e_op = "new"
    /\ e_sub = 0
    /\ e_list = << >>
    /\ e_ret = None
    /\ e_panicked = FALSE

\* HashMap::new()
EmptyTable == [b \in {} |-> 0]

GameIdle ==
    /\ g_start = New(0)
    /\ g_human = New(0)
    /\ g_ai = New(0)
    /\ g_human_turn = TRUE
    /\ g_prev = New(0)
    /\ g_turns = 0
    /\ g_phase = "playing"
    /\ g_by = "none"
    /\ g_final = None
    /\ g_msg = "none"

PickIdle ==
    /\ p_state = New(0)
    /\ values = EmptyTable
    /\ p_inserts = 0
    /\ p_epsilon = 0
    /\ p_op = "new"
    /\ p_ret = None
    /\ p_panicked = FALSE

PackedIdle ==
    /\ q = ActionNew
    /\ pushed = << >>
    /\ popped = << >>

GenIdle ==
    /\ base_state = New(0)
    /\ action = ActionNew
    /\ state_stack = << >>
    /\ ret = None
    /\ yielded = << >>
    /\ exhausted = FALSE
    /\ panicked = FALSE

PlayIdle ==
    /\ cur_state = New(0)
    /\ opp_state = New(0)
    /\ counter = 0

(***************************************************************************)
(* SpecPacked: an Action filled by push_front, then emptied by pop_front   *)
(* (test_fifo_queue, packed_actions.rs:88-101)                             *)
(***************************************************************************)
\* The sub-move pushed at length len once the free prefix is over: it runs
\* through 5, 4, 3, 2, 1, 0 and again.
FillSub(len) == (5 * len + 1) % 6

PushChoices(len) == IF len < MaxFree THEN SubMoves ELSE {FillSub(len)}

InitPacked ==
    /\ q = ActionNew
    /\ pushed = << >>
    /\ popped = << >>
    /\ base_state = New(0)
    /\ action = ActionNew
    /\ state_stack = << >>
    /\ ret = None
    /\ yielded = << >>
    /\ exhausted = FALSE
    /\ panicked = FALSE
    /\ cur_state = New(0)
    /\ opp_state = New(0)
    /\ counter = 0
    /\ DequeIdle
    /\ BoardIdle
    /\ EvalIdle
    /\ GameIdle
    /\ PickIdle

\* action_list.push_front(sub), while nothing has been popped
DoPushFront ==
    /\ popped = << >>
    /\ \E sub \in PushChoices(Length(q)) :
          /\ ~PushFrontPanics(q, sub)
          /\ q' = PushFront(q, sub)
          /\ pushed' = Append(pushed, sub)
    /\ UNCHANGED <<popped, genVars, playVars, dequeVars, boardVars, evalVars,
                   gameVars, pickVars>>

\* action_list.pop_front()
DoPopFront ==
    /\ ~IsEmpty(q)
    /\ popped' = Append(popped, PopFrontValue(q))
    /\ q' = PopFrontRest(q)
    /\ UNCHANGED <<pushed, genVars, playVars, dequeVars, boardVars, evalVars,
                   gameVars, pickVars>>

NextPacked == DoPushFront \/ DoPopFront

SpecPacked == InitPacked /\ [][NextPacked]_vars

(***************************************************************************)
(* SpecGen: one ActionIter, next() called again and again                  *)
(***************************************************************************)
Board(mover, opp_seeds) ==
    LET slot(i) == IF i < 6 THEN mover[i + 1]
                   ELSE IF i = 6 \/ i = 13 THEN 0 ELSE opp_seeds
    IN  [k \in 1 .. NumSlots |-> slot(k - 1)]

\* The boards of test_action_iter (mancala.rs:331-370) ...
New4 == New(4)
New4House3Is2 == SetSlot(New(4), 3, 2)
Sparse == SetSlot(SetSlot(New(0), 5, 1), 10, 1)
\* ... the start with 2 seeds added to house 3 ...
New4House3Plus2 == SetSlot(New(4), 3, Slot(New(4), 3) + 2)

\* ... and every board whose mover side holds at most MaxMoverSeeds seeds,
\* against an opponent side that is empty or holds one seed per house.
SmallBoards ==
    {Board(m, o) : m \in {f \in [1 .. 6 -> 0 .. MaxMoverSeeds] :
                              SumSlots(f, 0, 6) <= MaxMoverSeeds},
                   o \in {0, 1}}

BaseBoards == {New4, New4House3Is2, Sparse, New4House3Plus2} \cup SmallBoards

\* state.gen_actions()
InitGen ==
    /\ base_state \in BaseBoards
    /\ action = ActionNew
    /\ state_stack = << >>
    /\ ret = None
    /\ yielded = << >>
    /\ exhausted = FALSE
    /\ panicked = FALSE
    /\ q = ActionNew
    /\ pushed = << >>
    /\ popped = << >>
    /\ cur_state = New(0)
    /\ opp_state = New(0)
    /\ counter = 0
    /\ DequeIdle
    /\ BoardIdle
    /\ EvalIdle
    /\ GameIdle
    /\ PickIdle

\* iter.next()
CallNext ==
    /\ ~panicked
    /\ Len(yielded) < MaxYield
    /\ LET r == IterNext(base_state, action, state_stack)
       IN  /\ action' = r.action
           /\ state_stack' = r.state_stack
           /\ panicked' = r.panic
           /\ ret' = r.ret
           /\ exhausted' = (exhausted \/ (~r.panic /\ r.ret = None))
           /\ yielded' = IF ~exhausted /\ r.ret # None
                         THEN Append(yielded, r.ret[1])
                         ELSE yielded
    /\ UNCHANGED <<base_state, packedVars, playVars, dequeVars, boardVars, evalVars,
                   gameVars, pickVars>>

NextGen == CallNext

SpecGen == InitGen /\ [][NextGen]_vars

(***************************************************************************)
(* SpecChain: one ActionIter consumed to its first None, the yielded       *)
(* Actions not kept, on the boards of SpecGen and on boards whose mover    *)
(* side can be emptied by one chain of renewing sub-moves                  *)
(***************************************************************************)
\* The mover's side before the renewing sub-move that leaves side: the house
\* nearest to the store that is empty in side held 6 - i seeds, and each house
\* after it one seed less.  A side without an empty house is left as it is.
Unsow(side) ==
    LET empty == {i \in SubMoves : side[i + 1] = 0}
    IN  IF empty = {} THEN side
        ELSE LET house == CHOOSE i \in empty : \A other \in empty : other <= i
             IN  [k \in 1 .. 6 |-> IF k - 1 = house THEN 6 - house
                                   ELSE IF k - 1 > house THEN side[k] - 1
                                   ELSE side[k]]

RECURSIVE ChainSide(_)
\* The side of n seeds that a chain of n renewing sub-moves empties.
ChainSide(n) == IF n = 0 THEN <<0, 0, 0, 0, 0, 0>> ELSE Unsow(ChainSide(n - 1))

ChainBoards == {Board(ChainSide(n), o) : n \in 1 .. MaxChainSeeds, o \in {0, 1}}

InitChain ==
    /\ base_state \in BaseBoards \cup ChainBoards
    /\ action = ActionNew
    /\ state_stack = << >>
    /\ ret = None
    /\ yielded = << >>
    /\ exhausted = FALSE
    /\ panicked = FALSE
    /\ PackedIdle
    /\ PlayIdle
    /\ DequeIdle
    /\ BoardIdle
    /\ EvalIdle
    /\ GameIdle
    /\ PickIdle

\* iter.next(), as a `for` loop calls it: until it returns None
CallNextInLoop ==
    /\ ~panicked
    /\ ~exhausted
    /\ \E r \in {IterNext(base_state, action, state_stack)} :
          /\ action' = r.action
          /\ state_stack' = r.state_stack
          /\ panicked' = r.panic
          /\ ret' = r.ret
          /\ exhausted' = (~r.panic /\ r.ret = None)
    /\ UNCHANGED <<base_state, yielded, packedVars, playVars, dequeVars, boardVars,
                   evalVars, gameVars, pickVars>>

NextChain == CallNextInLoop

SpecChain == InitChain /\ [][NextChain]_vars

(***************************************************************************)
(* SpecPlay: the turn alternation of sarsa_loop (learning.rs:42-88) with    *)
(* AIPlayer::take_action and AIPlayer::opponent_plays (player.rs:33-51)    *)
(***************************************************************************)
\* main.rs:757 starts from new(1), tui.rs:94 from new(4); 13 is a start that
\* fills houses past 13 seeds within the first turn.
StartSeeds == {1, 4, 13}

\* The Actions held by the Vec that pick_action collects.
Range(seq) == {seq[k] : k \in 1 .. Len(seq)}

InitPlay ==
    /\ \E n \in StartSeeds :
          /\ cur_state = New(n)
          /\ opp_state = SwapBoard(New(n))
    /\ counter = 0
    /\ q = ActionNew
    /\ pushed = << >>
    /\ popped = << >>
    /\ base_state = New(0)
    /\ action = ActionNew
    /\ state_stack = << >>
    /\ ret = None
    /\ yielded = << >>
    /\ exhausted = FALSE
    /\ panicked = FALSE
    /\ DequeIdle
    /\ BoardIdle
    /\ EvalIdle
    /\ GameIdle
    /\ PickIdle

\* One pass of sarsa_loop's inner loop: the current player picks any of the
\* generated turns and plays it, the opposing player replays it on its own
\* (mirrored) board, and the players trade places unless the game has ended.
TakeTurn ==
    /\ counter < MaxTurns
    /\ ~IsEnded(cur_state)
    /\ \E choice \in Range(GenActions(cur_state)) :
          LET mine == EvaluateAction(cur_state, choice)
              theirs == SwapBoard(EvaluateAction(SwapBoard(opp_state), choice))
          IN  IF IsEnded(mine)
              THEN cur_state' = mine /\ opp_state' = theirs
              ELSE cur_state' = theirs /\ opp_state' = mine
    /\ counter' = counter + 1
    /\ UNCHANGED <<packedVars, genVars, dequeVars, boardVars, evalVars,
                   gameVars, pickVars>>

NextPlay == TakeTurn

SpecPlay == InitPlay /\ [][NextPlay]_vars

(***************************************************************************)
(* SpecDeque: push_front, pop_front and pop_back on one Action, in any     *)
(* order, beside a reference deque (test_fifo_queue and                    *)
(* test_packed_internals, packed_actions.rs:88-121).  A run is followed up *)
(* to the first call that panics or that goes through on an empty Action.  *)
(***************************************************************************)
\* SubAction is u8: while the Action is short any of 0..7 is pushed.
DqPushChoices(len) == IF len < MaxFree THEN 0 .. 7 ELSE {FillSub(len)}

RECURSIVE Filled(_, _)
\* The Action after push_front(FillSub(0)), ..., push_front(FillSub(n - 1)) on a,
\* where a holds k sub-moves.
Filled(a, n) ==
    IF Length(a) >= n THEN a ELSE Filled(PushFront(a, FillSub(Length(a))), n)

\* A run starts from new() or from an Action three pushes short of full.
StartLens == {0, MAX_LEN - 3}

InitDeque ==
    /\ \E n \in StartLens :
          /\ dq = Filled(ActionNew, n)
          /\ held = [i \in 1 .. n |-> FillSub(i - 1)]
          /\ n_push = n
    /\ dq_op = "new"
    /\ dq_arg = 0
    /\ dq_ret = None
    /\ ref_ret = None
    /\ dq_outcome = "ok"
    /\ n_pop = 0
    /\ dq_calls = 0
    /\ PackedIdle
    /\ GenIdle
    /\ PlayIdle
    /\ BoardIdle
    /\ EvalIdle
    /\ GameIdle
    /\ PickIdle

\* action_list.push_front(sub)
DqPushFront ==
    /\ dq_outcome = "ok"
    /\ dq_calls < MaxOps
    /\ dq_calls' = dq_calls + 1
    /\ \E sub \in DqPushChoices(Length(dq)) :
          /\ dq_arg' = sub
          /\ IF PushFrontPanics(dq, sub)
             THEN /\ dq_outcome' = "panic"
                  /\ UNCHANGED <<dq, held, n_push>>
             ELSE /\ dq_outcome' = "ok"
                  /\ dq' = PushFront(dq, sub)
                  /\ held' = Append(held, sub)
                  /\ n_push' = n_push + 1
    /\ dq_op' = "push_front"
    /\ dq_ret' = None
    /\ ref_ret' = None
    /\ UNCHANGED <<n_pop, packedVars, genVars, playVars, boardVars, evalVars,
                   gameVars, pickVars>>

\* action_list.pop_front()
DqPopFront ==
    /\ dq_outcome = "ok"
    /\ dq_calls < MaxOps
    /\ dq_calls' = dq_calls + 1
    /\ dq_op' = "pop_front"
    /\ dq_arg' = 0
    /\ IF IsEmpty(dq)
       THEN /\ \/ /\ dq_outcome' = "panic"
                  /\ dq_ret' = None
                  /\ dq' = dq
               \/ /\ dq_outcome' = "wrapped"
                  /\ dq_ret' = Some(PopFrontValueWrapped(dq))
                  /\ dq' = PopFrontRestWrapped(dq)
            /\ ref_ret' = None
            /\ UNCHANGED <<held, n_pop>>
       ELSE /\ dq_outcome' = "ok"
            /\ dq_ret' = Some(PopFrontValue(dq))
            /\ dq' = PopFrontRest(dq)
            /\ ref_ret' = Some(Head(held))
            /\ held' = Tail(held)
            /\ n_pop' = n_pop + 1
    /\ UNCHANGED <<n_push, packedVars, genVars, playVars, boardVars, evalVars,
                   gameVars, pickVars>>

\* action_list.pop_back()
DqPopBack ==
    /\ dq_outcome = "ok"
    /\ dq_calls < MaxOps
    /\ dq_calls' = dq_calls + 1
    /\ dq_op' = "pop_back"
    /\ dq_arg' = 0
    /\ IF IsEmpty(dq)
       THEN /\ \/ /\ dq_outcome' = "panic"
                  /\ dq_ret' = None
                  /\ dq' = dq
               \/ /\ dq_outcome' = "wrapped"
                  /\ dq_ret' = Some(PopBackValue(dq))
                  /\ dq' = PopBackRestWrapped(dq)
            /\ ref_ret' = None
            /\ UNCHANGED <<held, n_pop>>
       ELSE /\ dq_outcome' = "ok"
            /\ dq_ret' = Some(PopBackValue(dq))
            /\ dq' = PopBackRest(dq)
            /\ ref_ret' = Some(held[Len(held)])
            /\ held' = SubSeq(held, 1, Len(held) - 1)
            /\ n_pop' = n_pop + 1
    /\ UNCHANGED <<n_push, packedVars, genVars, playVars, boardVars, evalVars,
                   gameVars, pickVars>>

NextDeque == DqPushFront \/ DqPopFront \/ DqPopBack

SpecDeque == InitDeque /\ [][NextDeque]_vars

(***************************************************************************)
(* SpecBoard: swap_board, is_won and finalize_game called on one board     *)
(* (test_end_game, test_finalize_game, test_swap_board,                    *)
(* mancala.rs:429-467)                                                     *)
(***************************************************************************)
\* The six houses of one side, holding at most MaxSideSeeds seeds in all.
Sides ==
    {f \in [1 .. 6 -> 0 .. MaxSideSeeds] : SumSlots(f, 0, 6) <= MaxSideSeeds}

\* The other side: empty, one seed per house, or uneven.
OtherSides == {<<0, 0, 0, 0, 0, 0>>, <<1, 1, 1, 1, 1, 1>>, <<0, 0, 1, 0, 0, 2>>}

BoardOf(p1, store1, p2, store2) == p1 \o <<store1>> \o p2 \o <<store2>>

\* The board of test_swap_board before the swap.
New4AfterSub4 == EvaluateAction(New(4), Singleton(4))

BoardInputs ==
    {New(1), New(4), New4AfterSub4}
    \cup {BoardOf(m, a, o, b) : m \in Sides, o \in OtherSides,
                                 a \in 0 .. MaxStore, b \in 0 .. MaxStore}
    \cup {BoardOf(o, a, m, b) : m \in Sides, o \in OtherSides,
                                 a \in 0 .. MaxStore, b \in 0 .. MaxStore}

InitBoard ==
    /\ board \in BoardInputs
    /\ b_op = "new"
    /\ b_prev = board
    /\ b_prev_op = "new"
    /\ b_prev2 = board
    /\ won = None
    /\ b_panicked = FALSE
    /\ b_calls = 0
    /\ PackedIdle
    /\ GenIdle
    /\ PlayIdle
    /\ DequeIdle
    /\ EvalIdle
    /\ GameIdle
    /\ PickIdle

\* What every call does to the record of calls.
Called(op) ==
    /\ ~b_panicked
    /\ b_calls < MaxCalls
    /\ b_calls' = b_calls + 1
    /\ b_op' = op
    /\ b_prev' = board
    /\ b_prev_op' = b_op
    /\ b_prev2' = b_prev
    /\ UNCHANGED <<packedVars, genVars, playVars, dequeVars, evalVars,
                   gameVars, pickVars>>

\* state.swap_board()
CallSwapBoard ==
    /\ Called("swap_board")
    /\ board' = SwapBoard(board)
    /\ won' = None
    /\ UNCHANGED b_panicked

\* state.is_won()
CallIsWon ==
    /\ Called("is_won")
    /\ won' = IsWon(board)
    /\ UNCHANGED <<board, b_panicked>>

\* state.finalize_game()
CallFinalizeGame ==
    /\ Called("finalize_game")
    /\ won' = None
    /\ IF FinalizeGamePanics(board)
       THEN b_panicked' = TRUE /\ board' = board
       ELSE b_panicked' = FALSE /\ board' = FinalizeGame(board)

NextBoard == CallSwapBoard \/ CallIsWon \/ CallFinalizeGame

SpecBoard == InitBoard /\ [][NextBoard]_vars

(***************************************************************************)
(* SpecEval: one call of evaluate_subaction, evaluate_action or            *)
(* evaluate_to_new_state on an input board (test_evaluate_actions,         *)
(* test_capture_rules, mancala.rs:373-397)                                 *)
(***************************************************************************)
RECURSIVE PlayTurns(_, _)
\* The board handed to the next mover after the turns of the list, each
\* played by evaluate_action and followed by swap_board.
PlayTurns(h, turns) ==
    IF turns = << >> THEN h
    ELSE PlayTurns(SwapBoard(EvaluateAction(h, PushAll(ActionNew, Head(turns)))),
                   Tail(turns))

\* Two boards of games played from new(4): after four turns house 5 holds 9
\* seeds and house 1 none; after eight turns house 5 holds 15 seeds.
PlayedWrap == PlayTurns(New(4), << <<4>>, <<4>>, <<2, 1, 4, 3>>, <<1>> >>)
PlayedFifteen ==
    PlayTurns(New(4), << <<3>>, <<3>>, <<2, 4>>, <<4>>, <<1, 0, 4, 3, 4>>,
                         <<1, 5>>, <<2, 4, 0>>, <<3>> >>)

\* The board of test_capture_rules, and a board with empty and full houses.
New4House4Is0 == SetSlot(New(4), 4, 0)
Mixed == <<0, 3, 0, 1, 0, 2, 1, 2, 0, 5, 1, 0, 3, 2>>

EvalBases == {New(0), New(4), New4House4Is0, Mixed}

\* Boards built as the tests build them: new(n), then one house set.
EvalBoards ==
    {SetSlot(b, sub, s) : b \in EvalBases, sub \in SubMoves, s \in 0 .. MaxHouseSeeds}
    \cup {PlayedWrap, PlayedFifteen}

\* The input boards that Action arguments are played on: those whose houses
\* 0..5 hold at most MaxSeqHouse seeds each.
SeqBoards == {b \in EvalBoards : \A i \in SubMoves : Slot(b, i) <= MaxSeqHouse}

\* SubAction is u8; 14 and 15 stand for the values past the board.
SubInputs == 0 .. (NumSlots + 1)

\* The Actions push_front can build: 1..MaxSeqLen sub-moves out of 0..6.
SeqInputs == UNION {[1 .. n -> 0 .. 6] : n \in 1 .. MaxSeqLen}

InitEval ==
    /\ e_board \in EvalBoards
    /\ e_prev = e_board
    /\ e_op = "new"
    /\ e_sub = 0
    /\ e_list = << >>
    /\ e_ret = None
    /\ e_panicked = FALSE
    /\ PackedIdle
    /\ GenIdle
    /\ PlayIdle
    /\ DequeIdle
    /\ BoardIdle
    /\ GameIdle
    /\ PickIdle

\* state.evaluate_subaction(sub)
CallEvaluateSubaction ==
    /\ e_op = "new"
    /\ e_op' = "evaluate_subaction"
    /\ e_prev' = e_board
    /\ \E sub \in SubInputs :
          /\ e_sub' = sub
          /\ IF EvaluateSubactionPanics(e_board, sub)
             THEN e_panicked' = TRUE /\ e_board' = e_board
             ELSE e_panicked' = FALSE /\ e_board' = EvaluateSubaction(e_board, sub)
    /\ UNCHANGED <<e_list, e_ret>>
    /\ UNCHANGED <<packedVars, genVars, playVars, dequeVars, boardVars, gameVars,
                   pickVars>>

\* state.evaluate_action(action_list)
CallEvaluateAction ==
    /\ e_op = "new"
    /\ e_op' = "evaluate_action"
    /\ e_prev' = e_board
    /\ e_board \in SeqBoards
    /\ \E list \in SeqInputs :
          \E r \in {EvaluateActionRun(e_board, PushAll(ActionNew, list))} :
              /\ e_list' = list
              /\ e_board' = r.board
              /\ e_panicked' = r.panic
    /\ UNCHANGED <<e_sub, e_ret>>
    /\ UNCHANGED <<packedVars, genVars, playVars, dequeVars, boardVars, gameVars,
                   pickVars>>

\* state.evaluate_to_new_state(action_list): evaluate_action on a clone
CallEvaluateToNewState ==
    /\ e_op = "new"
    /\ e_op' = "evaluate_to_new_state"
    /\ e_prev' = e_board
    /\ e_board \in SeqBoards
    /\ \E list \in SeqInputs :
          \E r \in {EvaluateActionRun(e_board, PushAll(ActionNew, list))} :
              /\ e_list' = list
              /\ e_ret' = IF r.panic THEN None ELSE Some(r.board)
              /\ e_panicked' = r.panic
    /\ UNCHANGED <<e_board, e_sub>>
    /\ UNCHANGED <<packedVars, genVars, playVars, dequeVars, boardVars, gameVars,
                   pickVars>>

NextEval == CallEvaluateSubaction \/ CallEvaluateAction \/ CallEvaluateToNewState

SpecEval == InitEval /\ [][NextEval]_vars

(***************************************************************************)
(* SpecGame: a game between a HumanPlayer and an AIPlayer as play_loop     *)
(* (player.rs:153-188) and the TUI (tui.rs:115-242) run it: the player to  *)
(* move plays one generated turn, the other replays it on its own board,   *)
(* and when the mover's board is ended the result is reported              *)
(***************************************************************************)
\* main.rs:757 starts from new(1), the TUI from new(4) (tui.rs:69, 93);
\* PlayedFifteen is a position of a game from new(4).
GameStarts == {New(1), New(4), PlayedFifteen}

\* A game from new(1) after the turn (5, 4), a bonus sub-move and a capture:
\* 9 seeds are left in the houses and every game from here is played to its
\* end.
EndGame == PlayTurns(New(1), << <<5, 4>> >>)

\* Games from new(1) are played for MaxGameTurns turns, games from EndGame
\* for MaxEndGameTurns, the others for MaxLongGameTurns.
TurnCap ==
    IF g_start = New(1) THEN MaxGameTurns
    ELSE IF g_start = EndGame THEN MaxEndGameTurns
    ELSE MaxLongGameTurns

InitGameFrom(starts) ==
    /\ g_start \in starts
    /\ g_human_turn \in BOOLEAN
    \* the player to move gets starting_state, the other its swap_board image
    /\ g_human = IF g_human_turn THEN g_start ELSE SwapBoard(g_start)
    /\ g_ai = IF g_human_turn THEN SwapBoard(g_start) ELSE g_start
    /\ g_prev = g_start
    /\ g_turns = 0
    /\ g_phase = "playing"
    /\ g_by = "none"
    /\ g_final = None
    /\ g_msg = "none"
    /\ PackedIdle
    /\ GenIdle
    /\ PlayIdle
    /\ DequeIdle
    /\ BoardIdle
    /\ EvalIdle
    /\ PickIdle

\* The board of p1, the player that take_action is called on.
MoverBoard == IF g_human_turn THEN g_human ELSE g_ai

\* A faulty opponent_plays that leaves the board in the mover's view.
OpponentPlaysNoSwapBack(h, action_list) ==
    EvaluateAction(SwapBoard(h), action_list)

\* opponent_plays: swap_board, evaluate_action, swap_board
OpponentPlays(h, action_list) ==
    SwapBoard(EvaluateAction(SwapBoard(h), action_list))

\* One pass of the loop of play_loop: p1.take_action, p2.opponent_plays, then
\* break if p1's board is ended, else mem::swap(p1, p2).  In the TUI the
\* same pass is make_selected_move or ai_turn.
GameTurn ==
    /\ g_phase = "playing"
    /\ g_turns < TurnCap
    /\ \E choice \in Range(GenActions(MoverBoard)) :
          \E mine \in {EvaluateAction(MoverBoard, choice)} :
              /\ g_human' = IF g_human_turn THEN mine
                            ELSE OpponentPlays(g_human, choice)
              /\ g_ai' = IF g_human_turn THEN OpponentPlays(g_ai, choice)
                         ELSE mine
              /\ IF IsEnded(mine)
                 THEN g_phase' = "ended" /\ g_human_turn' = g_human_turn
                 ELSE g_phase' = "playing" /\ g_human_turn' = ~g_human_turn
    /\ g_prev' = MoverBoard
    /\ g_turns' = g_turns + 1
    /\ UNCHANGED <<g_start, g_by, g_final, g_msg>>
    /\ UNCHANGED <<packedVars, genVars, playVars, dequeVars, boardVars, evalVars,
                   pickVars>>

\* The end of play_loop: p1's board is cloned, finalized and reported.
PlayLoopReport ==
    /\ g_phase = "ended"
    /\ ~FinalizeGamePanics(MoverBoard)
    /\ \E final_state \in {FinalizeGame(MoverBoard)} :
          /\ g_final' = Some(final_state)
          /\ g_msg' = IF IsWon(final_state) = Some(P1win) THEN "You won!"
                      ELSE IF IsWon(final_state) = Some(P2win) THEN "You Lost!"
                      ELSE IF IsWon(final_state) = Some(Tie) THEN "It's a tie!"
                      ELSE "Not over yet?"
    /\ g_phase' = "reported"
    /\ g_by' = "play_loop"
    /\ UNCHANGED <<g_start, g_human, g_ai, g_human_turn, g_prev, g_turns>>
    /\ UNCHANGED <<packedVars, genVars, playVars, dequeVars, boardVars, evalVars,
                   pickVars>>

\* In the TUI the human moves first: the player to move after an even number
\* of turns is the human.
HumanMovedFirst ==
    IF g_phase = "playing" THEN g_human_turn <=> (g_turns % 2 = 0)
    ELSE g_human_turn <=> (g_turns % 2 = 1)

\* App::handle_game_end: game_state itself is finalized and reported.
HandleGameEnd ==
    /\ g_phase = "ended"
    /\ HumanMovedFirst
    /\ ~FinalizeGamePanics(g_human)
    /\ \E final_state \in {FinalizeGame(g_human)} :
          /\ g_human' = final_state
          /\ g_final' = Some(final_state)
          /\ g_msg' = IF IsWon(final_state) = Some(P1win) THEN "You WON!"
                      ELSE IF IsWon(final_state) = Some(P2win) THEN "AI WON!"
                      ELSE IF IsWon(final_state) = Some(Tie) THEN "It's a tie!"
                      ELSE "Game somehow ended without a result..."
    /\ g_phase' = "reported"
    /\ g_by' = "tui"
    /\ UNCHANGED <<g_start, g_ai, g_human_turn, g_prev, g_turns>>
    /\ UNCHANGED <<packedVars, genVars, playVars, dequeVars, boardVars, evalVars,
                   pickVars>>

InitGame == InitGameFrom(GameStarts)

NextGame == GameTurn \/ PlayLoopReport \/ HandleGameEnd

SpecGame == InitGame /\ [][NextGame]_vars

\* The same game from EndGame, where the loop of play_loop keeps running: a
\* pass is made whenever GameTurn is enabled, that is while the game is not
\* ended and the mover, with a seed in one of its houses, has a turn to take.
\* A pass is the only step that advances the turn counter.
InitGameLive == InitGameFrom({EndGame})

LoopPass ==
    /\ g_phase = "playing"
    /\ g_turns < TurnCap
    /\ \E sub \in SubMoves : Slot(MoverBoard, sub) > 0
    /\ g_turns' = g_turns + 1

SpecGameLive == InitGameLive /\ [][NextGame]_vars /\ WF_g_turns(LoopPass)

(***************************************************************************)
(* SpecPick: one call of pick_action or AIPlayer::take_action on one board *)
(* and one value table filled by values.insert (pick_actions, test_player, *)
(* mancala.rs:400-426, 470-480).  An f64 value v is kept as 2 * v.         *)
(***************************************************************************)
\* 0.5, the value of a board that is not in the table
Half == 1

\* The values put in the table: 0.0 and the 10.0 of the tests.
TableValues == {0, 20}

\* epsilon is 0.0 or 1.0; rand::random::<f64>() is in [0, 1): 0.0 or 0.5.
Epsilons == {0, 2}
RandomDraws == {0, Half}

\* The boards of pick_actions, a board with one turn, new(1), and new(0),
\* which has no turn.
PickBoards ==
    {New4, SwapBoard(EvaluateAction(New4, Singleton(3))), Sparse, New(1), New(0)}

\* values.get(&possible_state).unwrap_or(&0.5)
ValueOf(table, h) == IF h \in DOMAIN table THEN table[h] ELSE Half

\* values.insert(key, v)
TableInsert(table, key, v) ==
    [h \in DOMAIN table \cup {key} |-> IF h = key THEN v ELSE table[h]]

\* .map(|action| (action, self.evaluate_to_new_state(action)))
\* .map(|(action, possible_state)| (action, value of possible_state))
MapChoices(h, table, acts) ==
    [k \in 1 .. Len(acts) |-> <<acts[k], ValueOf(table, EvaluateAction(h, acts[k]))>>]

\* choices: each generated Action with the value of the board it leads to
Choices(h, table) == MapChoices(h, table, GenActions(h))

RECURSIVE GreedyLoopLast(_, _, _)
\* A faulty loop that replaces best by a choice of equal value.
GreedyLoopLast(choices, k, best) ==
    IF k > Len(choices) THEN best
    ELSE GreedyLoopLast(choices, k + 1,
                        IF choices[k][2] >= best[2] THEN choices[k] ELSE best)

RECURSIVE GreedyLoop(_, _, _)
\* for choice in &choices { if choice.1 > best.1 { best = choice; } }
GreedyLoop(choices, k, best) ==
    IF k > Len(choices) THEN best
    ELSE GreedyLoop(choices, k + 1,
                    IF choices[k][2] > best[2] THEN choices[k] ELSE best)

\* pick_action once choices is collected: the panic flag and the returned
\* (Action, f64), for the random number drawn and the index choose() would
\* pick.
PickAction(choices, epsilon, draw, chosen) ==
    IF Len(choices) = 0 THEN [panic |-> TRUE, ret |-> None]
    ELSE IF draw < epsilon
         THEN [panic |-> FALSE, ret |-> Some(choices[chosen])]
         ELSE [panic |-> FALSE, ret |-> Some(GreedyLoop(choices, 1, choices[1]))]

InitPick ==
    /\ p_state \in PickBoards
    /\ values = EmptyTable
    /\ p_inserts = 0
    /\ p_epsilon = 0
    /\ p_op = "new"
    /\ p_ret = None
    /\ p_panicked = FALSE
    /\ PackedIdle
    /\ GenIdle
    /\ PlayIdle
    /\ DequeIdle
    /\ BoardIdle
    /\ EvalIdle
    /\ GameIdle

\* good_state = state.clone(); good_state.evaluate_action(action);
\* value_fun.insert(good_state, v)
InsertValue ==
    /\ p_op \in {"new", "insert"}
    /\ p_inserts < MaxInserts
    /\ \E act \in Range(GenActions(p_state)), v \in TableValues :
          values' = TableInsert(values, EvaluateAction(p_state, act), v)
    /\ p_inserts' = p_inserts + 1
    /\ p_op' = "insert"
    /\ UNCHANGED <<p_state, p_epsilon, p_ret, p_panicked>>
    /\ UNCHANGED <<packedVars, genVars, playVars, dequeVars, boardVars, evalVars,
                   gameVars>>

\* The index choices.choose(&mut rng) may pick.
ChooseIndexes(choices) == 1 .. (IF choices = << >> THEN 1 ELSE Len(choices))

\* state.pick_action(epsilon, &value_fun)
CallPickAction ==
    /\ p_op \in {"new", "insert"}
    /\ \E choices \in {Choices(p_state, values)} :
          \E epsilon \in Epsilons, draw \in RandomDraws,
             chosen \in ChooseIndexes(choices) :
              \E r \in {PickAction(choices, epsilon, draw, chosen)} :
                  /\ p_epsilon' = epsilon
                  /\ p_ret' = r.ret
                  /\ p_panicked' = r.panic
    /\ p_op' = "pick_action"
    /\ UNCHANGED <<p_state, values, p_inserts>>
    /\ UNCHANGED <<packedVars, genVars, playVars, dequeVars, boardVars, evalVars,
                   gameVars>>

\* AIPlayer::take_action: pick_action, then evaluate_action on curr_state
CallTakeAction ==
    /\ p_op \in {"new", "insert"}
    /\ \E choices \in {Choices(p_state, values)} :
          \E epsilon \in Epsilons, draw \in RandomDraws,
             chosen \in ChooseIndexes(choices) :
              \E r \in {PickAction(choices, epsilon, draw, chosen)} :
                  /\ p_epsilon' = epsilon
                  /\ p_ret' = r.ret
                  /\ p_panicked' = r.panic
                  /\ p_state' = IF r.panic THEN p_state
                                ELSE EvaluateAction(p_state, r.ret[1][1])
    /\ p_op' = "take_action"
    /\ UNCHANGED <<values, p_inserts>>
    /\ UNCHANGED <<packedVars, genVars, playVars, dequeVars, boardVars, evalVars,
                   gameVars>>

NextPick == InsertValue \/ CallPickAction \/ CallTakeAction

SpecPick == InitPick /\ [][NextPick]_vars

(***************************************************************************)
(* Properties                                                              *)
(***************************************************************************)
MoverEmpty(h) == \A i \in SubMoves : Slot(h, i) = 0

\* The sub-move lists of the Actions yielded up to the first None.
YieldedList(i) == ToList(yielded[i])
YieldedSet == {YieldedList(i) : i \in 1 .. Len(yielded)}

RECURSIVE ApplyList(_, _)
\* The board after the sub-moves of list, one after another.
ApplyList(h, list) ==
    IF list = << >> THEN h
    ELSE ApplyList(EvaluateSubaction(h, Head(list)), Tail(list))

RECURSIVE LegalFrom(_, _)
\* All legal complete turns from board h, each prefixed by prefix: a chain
\* goes on after a renewing sub-move while the mover has a non-empty house.
LegalFrom(h, prefix) ==
    UNION { IF IsRenewingSubaction(h, s) /\ ~MoverEmpty(EvaluateSubaction(h, s))
            THEN LegalFrom(EvaluateSubaction(h, s), Append(prefix, s))
            ELSE {Append(prefix, s)}
          : s \in {t \in SubMoves : Slot(h, t) > 0} }

LegalTurns(h) == LegalFrom(h, << >>)

RECURSIVE LegalChain(_, _)
\* list is a non-empty chain of sub-moves 0..5, each on a non-empty house of the
\* board it is applied to, each but the last renewing.
LegalChain(h, list) ==
    /\ list # << >>
    /\ Head(list) \in SubMoves
    /\ Slot(h, Head(list)) > 0
    /\ \/ Len(list) = 1
       \/ /\ IsRenewingSubaction(h, Head(list))
          /\ LegalChain(EvaluateSubaction(h, Head(list)), Tail(list))

AllButLast(list) == SubSeq(list, 1, Len(list) - 1)
Last(list) == list[Len(list)]

PairwiseDistinct(seq) ==
    \A i, j \in 1 .. Len(seq) : i # j => seq[i] # seq[j]

\* C1: seed conservation. On every board reached by play from new(N), every
\* sub-move 0..5 on a non-empty house leaves the sum of the 14 slots unchanged.
C1_SeedConservation ==
    \A sub \in SubMoves :
        Slot(cur_state, sub) > 0 =>
            TotalSeeds(EvaluateSubaction(cur_state, sub)) = TotalSeeds(cur_state)

\* C2: generator completeness. For a base board that is not ended, the set of
\* sequences yielded up to the first None is the set of all legal complete turns.
C2_GeneratorComplete ==
    (exhausted /\ ~IsEnded(base_state)) => YieldedSet = LegalTurns(base_state)

\* C3: generator soundness. Every sequence yielded (up to the first None) is a
\* legal chain from the base board: sub-moves in 0..5, each on a house that is
\* non-empty in the board reached by the sub-moves before it, each but the last
\* renewing.
C3_GeneratorSound ==
    \A i \in 1 .. Len(yielded) : LegalChain(base_state, YieldedList(i))

C3_Witness ==
    \E i \in 1 .. Len(yielded) : Len(YieldedList(i)) >= 3

\* C4: complete turns. The last sub-move of every sequence yielded up to the
\* first None is non-renewing in the board it is applied to, or it is renewing
\* and leaves the mover's houses 0..5 all empty.
C4_CompleteTurn ==
    \A i \in 1 .. Len(yielded) :
        LET list == YieldedList(i)
            before == ApplyList(base_state, AllButLast(list))
        IN  \/ ~IsRenewingSubaction(before, Last(list))
            \/ MoverEmpty(EvaluateSubaction(before, Last(list)))

LastIsRenewing(i) ==
    IsRenewingSubaction(ApplyList(base_state, AllButLast(YieldedList(i))),
                        Last(YieldedList(i)))

C4_Witness ==
    /\ \E i \in 1 .. Len(yielded) : Len(YieldedList(i)) >= 2 /\ ~LastIsRenewing(i)
    /\ \E j \in 1 .. Len(yielded) : LastIsRenewing(j)

\* C5: generator termination. On a base board that is not ended, next() returns
\* at least one sequence before its first None, and the first None comes after
\* finitely many calls: while it has not come, fewer than MaxYield sequences
\* were yielded and the next call is possible.
C5_Terminates ==
    (~IsEnded(base_state)) =>
        IF exhausted THEN Len(yielded) >= 1
        ELSE ~panicked /\ Len(yielded) < MaxYield

C5_Witness ==
    /\ ~IsEnded(base_state)
    /\ exhausted
    /\ Len(yielded) >= 10

\* C6: a generator made on an ended board yields nothing: its first next()
\* returns None, also when only the opponent's side 7..12 is empty.
C6_EndedYieldsNothing ==
    IsEnded(base_state) => yielded = << >>

\* C7: single pass. Once next() has returned None, every later call returns None.
C7_SinglePass ==
    exhausted => ret = None

\* C8: the move counts of test_action_iter: 10 sequences from new(4), 13 from
\* new(4) with house 3 set to 2, 1 from the board with only house 5 = 1 and
\* house 10 = 1, pairwise distinct in each case.
ExpectedCount(h, n) ==
    base_state = h =>
        /\ Len(yielded) <= n
        /\ exhausted => Len(yielded) = n
        /\ PairwiseDistinct(yielded)

C8_MoveCounts ==
    /\ ExpectedCount(New4, 10)
    /\ ExpectedCount(New4House3Is2, 13)
    /\ ExpectedCount(Sparse, 1)

C8_Witness ==
    /\ base_state = New4
    /\ exhausted
    /\ Len(yielded) = 10

\* C9 as stated: from new(4) with 2 seeds added to house 3 (6 seeds there),
\* exactly 13 complete turns are yielded.
C9_Original ==
    (exhausted /\ base_state = New4House3Plus2) => Len(yielded) = 13

\* C9 as amended: the 13 complete turns (those listed in test_action_iter) are
\* yielded from new(4) with house 3 set to 2 seeds; with 2 seeds added to
\* house 3 (6 seeds there) exactly 10 are yielded.
C9_Amended ==
    /\ (exhausted /\ base_state = New4House3Is2) =>
           [i \in 1 .. Len(yielded) |-> YieldedList(i)] =
               << <<0>>, <<1>>, <<2, 0>>, <<2, 1>>, <<2, 3, 0>>, <<2, 3, 1>>,
                  <<2, 3, 4>>, <<2, 3, 5>>, <<2, 4>>, <<2, 5>>, <<3>>, <<4>>, <<5>> >>
    /\ (exhausted /\ base_state = New4House3Plus2) => Len(yielded) = 10

C9_Witness ==
    /\ base_state = New4House3Is2
    /\ exhausted
    /\ \E i \in 1 .. Len(yielded) : Len(YieldedList(i)) = 3

\* C10: FIFO round trip. After k <= 19 push_front calls on new() followed by
\* pop_front calls, the sub-moves come back in the order they were pushed, and
\* after k pops the Action is empty.
C10_FifoRoundTrip ==
    /\ Len(popped) <= Len(pushed)
    /\ \A i \in 1 .. Len(popped) : popped[i] = pushed[i]
    /\ Len(popped) = Len(pushed) => IsEmpty(q)

C10_Witness ==
    /\ Len(pushed) = MAX_LEN
    /\ popped = pushed

RECURSIVE ToListBack(_)
\* The sub-moves of an Action, first played first, read from the other end:
\* pop_back on a copy until it is empty.
ToListBack(a) ==
    IF IsEmpty(a) THEN << >>
    ELSE ToListBack(PopBackRest(a)) \o << PopBackValue(a) >>

RECURSIVE FromList(_)
\* The Action built from new() by push_front of the sub-moves of list in order.
FromList(list) ==
    IF list = << >> THEN ActionNew
    ELSE PushFront(FromList(AllButLast(list)), Last(list))

PopOps == {"pop_front", "pop_back"}

\* C11: double-ended behaviour. After any interleaving of push_front, pop_front
\* and pop_back calls that returned, each pop gave what the reference deque
\* gave (pop_front the oldest element held, pop_back the newest), and the
\* elements left, read from either end, are those of the reference deque in
\* the same order.
C11_DoubleEnded ==
    dq_outcome = "ok" =>
        /\ dq_ret = ref_ret
        /\ ToList(dq) = held
        /\ ToListBack(dq) = held

C11_Witness ==
    /\ dq_outcome = "ok"
    /\ dq_op = "pop_back"
    /\ n_pop >= 3
    /\ Len(held) >= 2
    /\ dq # FromList(held)

\* C12: structural equality. An Action reached by any calls of push_front,
\* pop_front and pop_back that returned is the same u64 word (so compares and
\* hashes equal) as the Action freshly built from the sub-moves it holds.
C12_StructuralEquality ==
    dq_outcome = "ok" => dq = FromList(held)

\* C13: length and capacity. new() has length 0 and is empty; after calls
\* within the contract (no pop of an empty Action went through) length() is the
\* number of pushes minus the number of pops, lies in 0..19, and is_empty()
\* holds iff it is 0; a push_front of a house index panics only on an Action of
\* length 19.
C13_LengthAndCapacity ==
    /\ Length(ActionNew) = 0
    /\ IsEmpty(ActionNew)
    /\ dq_outcome # "wrapped" =>
           /\ Length(dq) = n_push - n_pop
           /\ Length(dq) \in 0 .. MAX_LEN
           /\ IsEmpty(dq) <=> (n_push = n_pop)
           /\ (dq_op = "push_front" /\ dq_arg \in SubMoves /\ dq_outcome = "panic")
                  => Length(dq) = MAX_LEN

C13_Witness ==
    /\ dq_op = "push_front"
    /\ dq_arg \in SubMoves
    /\ dq_outcome = "panic"
    /\ n_push = MAX_LEN
    /\ Length(dq) = MAX_LEN

\* C14: push_front(sub) panics for every sub outside 0..5, the store index 6
\* included, and no such value is ever held by the Action.
C14_RejectsNonHouse ==
    /\ (dq_op = "push_front" /\ dq_arg \notin SubMoves) => dq_outcome = "panic"
    /\ dq_outcome # "wrapped" =>
           \A i \in 1 .. Length(dq) : ToList(dq)[i] \in SubMoves

\* C15: pop_front and pop_back on an empty Action panic: they return no
\* sub-move and leave the length at 0.
C15_EmptyPopFails ==
    (dq_op \in PopOps /\ ref_ret = None) =>
        /\ dq_outcome = "panic"
        /\ dq_ret = None
        /\ Length(dq) = 0

\* C16: swap involution. swap_board applied twice gives back exactly the board
\* it started from.
C16_SwapInvolution ==
    (b_op = "swap_board" /\ b_prev_op = "swap_board") => board = b_prev2

C16_Witness ==
    /\ b_op = "swap_board"
    /\ b_prev_op = "swap_board"
    /\ board = New4AfterSub4
    /\ b_prev # board

\* C17: swap_board exchanges slot i with slot i + 7 for every i in 0..6 (houses
\* 0..5 with 7..12, store 6 with store 13); the total seed count is unchanged.
C17_SwapExchanges ==
    b_op = "swap_board" =>
        /\ \A i \in 0 .. 6 :
              /\ Slot(board, i) = Slot(b_prev, i + 7)
              /\ Slot(board, i + 7) = Slot(b_prev, i)
        /\ TotalSeeds(board) = TotalSeeds(b_prev)

C17_Witness ==
    /\ b_op = "swap_board"
    /\ b_prev = New4AfterSub4
    /\ Slot(board, 11) = 0
    /\ Slot(board, 12) = 5
    /\ Slot(board, 13) = 1

\* C18: is_won() returns None exactly when both house sums 0..5 and 7..12 are
\* non-zero; otherwise P1win, P2win or Tie according to whether houses 0..5 plus
\* store 6 hold more than, fewer than or as many seeds as houses 7..12 plus
\* store 13; the board is not modified.
C18_IsWon ==
    b_op = "is_won" =>
        LET side1 == SumSlots(board, 0, 7)
            side2 == SumSlots(board, 7, 14)
            both == SumSlots(board, 0, 6) # 0 /\ SumSlots(board, 7, 13) # 0
        IN  /\ board = b_prev
            /\ (won = None) <=> both
            /\ (won = None) <=> ~IsEnded(board)
            /\ ~both => won = IF side1 > side2 THEN Some(P1win)
                               ELSE IF side1 < side2 THEN Some(P2win)
                               ELSE Some(Tie)

C18_Witness ==
    /\ b_op = "is_won"
    /\ won = Some(P1win)
    /\ Slot(board, 6) < Slot(board, 13)

Flip(outcome) ==
    IF outcome = Some(P1win) THEN Some(P2win)
    ELSE IF outcome = Some(P2win) THEN Some(P1win)
    ELSE outcome

\* C19: the outcome is perspective-consistent. For an ended board s, is_won()
\* called after swap_board() is P2win when is_won(s) is P1win, P1win when it is
\* P2win, and Tie when it is Tie.
C19_PerspectiveConsistent ==
    (b_op = "is_won" /\ b_prev_op = "swap_board" /\ IsEnded(b_prev2)) =>
        /\ won # None
        /\ won = Flip(IsWon(b_prev2))

C19_Witness ==
    /\ b_op = "is_won"
    /\ b_prev_op = "swap_board"
    /\ IsEnded(b_prev2)
    /\ IsWon(b_prev2) = Some(P1win)
    /\ won = Some(P2win)

C21_FinalizeStart ==
    /\ (b_op = "finalize_game" /\ b_prev = New(4)) =>
           /\ ~b_panicked
           /\ board = <<4, 4, 4, 4, 4, 4, 0, 0, 0, 0, 0, 0, 0, 24>>
    /\ (b_op = "is_won" /\ b_prev_op = "finalize_game" /\ b_prev2 = New(4)) =>
           won = Some(Tie)

\* C22: finalize_game on an ended board sweeps the houses of the side that is
\* not empty into that side's own store and zeroes them; the houses and the
\* store of the empty side are unchanged, the total is unchanged, and
\* afterwards all 12 houses are 0.
C22_FinalizeSweeps ==
    (b_op = "finalize_game" /\ IsEnded(b_prev)) =>
        /\ ~b_panicked
        /\ IF SumSlots(b_prev, 0, 6) = 0
           THEN /\ \A i \in 0 .. 6 : Slot(board, i) = Slot(b_prev, i)
                /\ Slot(board, 13) = Slot(b_prev, 13) + SumSlots(b_prev, 7, 13)
           ELSE /\ \A i \in 7 .. 13 : Slot(board, i) = Slot(b_prev, i)
                /\ Slot(board, 6) = Slot(b_prev, 6) + SumSlots(b_prev, 0, 6)
        /\ \A i \in Slots : (i # 6 /\ i # 13) => Slot(board, i) = 0
        /\ TotalSeeds(board) = TotalSeeds(b_prev)

C22_Witness ==
    /\ b_op = "finalize_game"
    /\ ~b_panicked
    /\ SumSlots(b_prev, 0, 6) > 0
    /\ Slot(b_prev, 13) > 0
    /\ Slot(board, 6) > Slot(b_prev, 6)

\* C23: finalize_game is idempotent. On an ended board a second finalize_game
\* right after the first passes its assertion and changes nothing.
C23_FinalizeIdempotent ==
    (/\ b_op = "finalize_game"
     /\ b_prev_op = "finalize_game"
     /\ IsEnded(b_prev2)) =>
        /\ ~b_panicked
        /\ board = b_prev

C23_Witness ==
    /\ b_op = "finalize_game"
    /\ b_prev_op = "finalize_game"
    /\ ~b_panicked
    /\ b_prev # b_prev2
    /\ board = b_prev

\* C24: evaluate_subaction(sub) panics, with the board unchanged, for every sub
\* that is not in 0..5: the stores 6 and 13 and the opponent's houses 7..12.
C24_RejectsNonHouse ==
    (e_op = "evaluate_subaction" /\ e_sub \notin SubMoves) =>
        /\ e_panicked
        /\ e_board = e_prev

RECURSIVE NamesEmptyHouse(_, _)
\* Some sub-move of list names a house 0..5 that is empty in the board reached
\* by the sub-moves before it.
NamesEmptyHouse(h, list) ==
    /\ list # << >>
    /\ Head(list) \in SubMoves
    /\ \/ Slot(h, Head(list)) = 0
       \/ NamesEmptyHouse(EvaluateSubaction(h, Head(list)), Tail(list))

\* C25: evaluate_action panics when a sub-move of the sequence names a house
\* that is empty in the board it is applied to.
C25_EmptyHouseFails ==
    (e_op = "evaluate_action" /\ NamesEmptyHouse(e_prev, e_list)) => e_panicked

\* The board after house sub is emptied and one seed is added to each of the
\* Slot(h, sub) slots that follow sub in the cyclic order 0, 1, ..., 12.
ExpectedSow(h, sub) ==
    LET s == Slot(h, sub)
        added(i) == Cardinality({j \in 1 .. s : (sub + j) % 13 = i})
        slot(i) == IF i = 13 THEN Slot(h, 13)
                   ELSE (IF i = sub THEN 0 ELSE Slot(h, i)) + added(i)
    IN  [k \in 1 .. NumSlots |-> slot(k - 1)]

\* The board b after the seeds of house e and of the house opposite are moved
\* to store 6.
CaptureAt(b, e) ==
    LET moved == Slot(b, e) + Slot(b, 12 - e)
    IN  SetSlot(SetSlot(SetSlot(b, 6, Slot(b, 6) + moved), e, 0), 12 - e, 0)

\* C26: sowing. For sub in 0..5 holding 1 <= s <= 13 seeds, evaluate_subaction
\* empties house sub and adds one seed to each of the s slots that follow it in
\* the cyclic order 0..12 (13 skipped), before any capture; a capture changes
\* only store 6, one house 0..5 and the house opposite; store 13 is unchanged.
C26_Sowing ==
    (/\ e_op = "evaluate_subaction"
     /\ e_sub \in SubMoves
     /\ Slot(e_prev, e_sub) \in 1 .. 13) =>
        /\ ~e_panicked
        /\ SowSeeds(e_prev, e_sub) = ExpectedSow(e_prev, e_sub)
        /\ \/ e_board = ExpectedSow(e_prev, e_sub)
           \/ \E e \in SubMoves : e_board = CaptureAt(ExpectedSow(e_prev, e_sub), e)
        /\ Slot(e_board, 13) = Slot(e_prev, 13)

C26_Witness ==
    /\ e_op = "evaluate_subaction"
    /\ e_prev = SetSlot(New(0), 4, 10)
    /\ e_sub = 4
    /\ e_board = <<1, 1, 0, 0, 0, 1, 1, 1, 1, 1, 1, 1, 1, 0>>

\* C27: capture without wrap. For sub in 0..5 holding s >= 1 seeds with
\* sub + s <= 12: when e = sub + s <= 5 and house e was empty before the sow,
\* store 6 grows by 1 + houses[12 - e] and houses e and 12 - e become 0;
\* otherwise (house e not empty, or the last seed in the store or on the
\* opponent's side) the board is the sown board, with no capture.
C27_CaptureNoWrap ==
    (/\ e_op = "evaluate_subaction"
     /\ e_sub \in SubMoves
     /\ Slot(e_prev, e_sub) >= 1
     /\ e_sub + Slot(e_prev, e_sub) <= 12) =>
        LET e == e_sub + Slot(e_prev, e_sub)
            sown == ExpectedSow(e_prev, e_sub)
        IN  IF e <= 5 /\ Slot(e_prev, e) = 0
            THEN /\ Slot(e_board, 6) = Slot(e_prev, 6) + 1 + Slot(e_prev, 12 - e)
                 /\ Slot(e_board, e) = 0
                 /\ Slot(e_board, 12 - e) = 0
                 /\ \A i \in Slots \ {6, e, 12 - e} : Slot(e_board, i) = Slot(sown, i)
            ELSE e_board = sown

C27_Witness ==
    /\ e_op = "evaluate_subaction"
    /\ e_prev = New4House4Is0
    /\ e_sub = 0
    /\ e_board = <<0, 5, 5, 5, 0, 4, 5, 4, 0, 4, 4, 4, 4, 0>>

\* C28: capture after a wrap. When the sow of 1 <= s <= 13 seeds from sub in
\* 0..5 passes the opponent's side and its last seed lands in a house e of the
\* mover that then holds exactly 1 seed, that seed and the seeds of house
\* 12 - e are moved to store 6 and both houses are zeroed.
C28_CaptureAfterWrap ==
    (/\ e_op = "evaluate_subaction"
     /\ e_sub \in SubMoves
     /\ Slot(e_prev, e_sub) \in 1 .. 13
     /\ e_sub + Slot(e_prev, e_sub) >= 14
     /\ Slot(ExpectedSow(e_prev, e_sub), (e_sub + Slot(e_prev, e_sub)) % 13) = 1) =>
        e_board = CaptureAt(ExpectedSow(e_prev, e_sub),
                            (e_sub + Slot(e_prev, e_sub)) % 13)

\* C29: bonus-turn predicate. For sub in 0..5 on a non-empty house,
\* is_renewing_subaction(sub) on the board before the move holds iff the last
\* seed that evaluate_subaction(sub) sows goes to store 6.
C29_RenewingIffStore ==
    (/\ e_op = "evaluate_subaction"
     /\ e_sub \in SubMoves
     /\ Slot(e_prev, e_sub) > 0) =>
        (IsRenewingSubaction(e_prev, e_sub) <=> LastSownSlot(e_prev, e_sub) = Some(6))

\* C30: evaluate_action(seq) leaves the board that evaluate_subaction gives
\* when applied to the sub-moves of seq one after another, first pushed first;
\* evaluate_to_new_state(seq) returns that board and leaves the board it was
\* called on unchanged.  A call panics iff seq holds a sub-move that
\* evaluate_subaction rejects.
C30_EvaluateInOrder ==
    /\ e_op \in {"evaluate_action", "evaluate_to_new_state"} =>
           (e_panicked <=> \E i \in 1 .. Len(e_list) : e_list[i] \notin SubMoves)
    /\ (e_op = "evaluate_action" /\ ~e_panicked) =>
           e_board = ApplyList(e_prev, e_list)
    /\ e_op = "evaluate_to_new_state" =>
           /\ e_board = e_prev
           /\ ~e_panicked => e_ret = Some(ApplyList(e_prev, e_list))

C30_Witness ==
    /\ e_op = "evaluate_to_new_state"
    /\ e_prev = New(4)
    /\ e_list = <<2, 5>>
    /\ e_ret = Some(ApplyList(New(4), <<2, 5>>))
    /\ e_ret # Some(ApplyList(New(4), <<5, 2>>))
    /\ e_board = New(4)


\* C31: failure atomicity. Whenever evaluate_subaction or evaluate_action
\* panics, the board is the board before the call: no sub-move of the failed
\* call has been applied.
C31_FailureAtomic ==
    (e_op \in {"evaluate_subaction", "evaluate_action"} /\ e_panicked) =>
        e_board = e_prev


\* a comes before b in lexicographic order at a position where both hold a
\* sub-move, so that neither is a prefix of the other.
LexBefore(a, b) ==
    \E k \in 1 .. Len(a) :
        /\ k <= Len(b)
        /\ a[k] < b[k]
        /\ \A j \in 1 .. (k - 1) : a[j] = b[j]

IsPrefix(a, b) == Len(a) <= Len(b) /\ SubSeq(b, 1, Len(a)) = a

RECURSIVE CommonPrefixLen(_, _)
CommonPrefixLen(a, b) ==
    IF a = << >> \/ b = << >> \/ Head(a) # Head(b) THEN 0
    ELSE 1 + CommonPrefixLen(Tail(a), Tail(b))

\* C32: emission order. The sub-move lists of the sequences yielded by one
\* generator (up to its first None) are in strictly increasing lexicographic
\* order, none is a prefix of another, and the sequences that share a prefix
\* are yielded one after another: between two of them no sequence shares less.
C32_EmissionOrder ==
    \A lists \in {[i \in 1 .. Len(yielded) |-> YieldedList(i)]} :
        /\ \A i \in 1 .. (Len(lists) - 1) : LexBefore(lists[i], lists[i + 1])
        /\ \A i, j \in 1 .. Len(lists) : i # j => ~IsPrefix(lists[i], lists[j])
        /\ \A i, k \in 1 .. Len(lists) : \A j \in (i + 1) .. (k - 1) :
               CommonPrefixLen(lists[i], lists[j]) >= CommonPrefixLen(lists[i], lists[k])

C32_Witness ==
    /\ base_state = New4House3Is2
    /\ exhausted
    /\ Len(yielded) = 13
    /\ YieldedList(4) = <<2, 1>>
    /\ YieldedList(5) = <<2, 3, 0>>
    /\ YieldedList(9) = <<2, 4>>
    /\ YieldedList(11) = <<3>>


\* C33: capacity is never hit by the generator. During the enumeration of a
\* base board no call of next() fails an assertion (push_front is never asked
\* for a 20th sub-move) and the Action the search builds holds at most 19
\* sub-moves.
C33_CapacityNeverHit ==
    /\ ~panicked
    /\ Length(action) <= MAX_LEN

C33_Witness ==
    /\ ret # None
    /\ Len(ToList(ret[1])) = MaxChainSeeds
    /\ Len(state_stack) = MaxChainSeeds
    /\ MoverEmpty(GetCurrentState(base_state, state_stack))


RECURSIVE RenewingPrefix(_, _)
\* The sub-moves of list that are renewing in the board they are applied to,
\* walking from h and applying each of them; the walk ends at the first
\* sub-move that is not renewing.
RenewingPrefix(h, list) ==
    IF list = << >> \/ ~IsRenewingSubaction(h, Head(list)) THEN << >>
    ELSE << Head(list) >> \o RenewingPrefix(EvaluateSubaction(h, Head(list)), Tail(list))

\* C40: generator stack invariant. Whenever next() returns a sequence, the
\* depth of state_stack is the number of renewing sub-moves of the sequence
\* (all its sub-moves but at most the last), and the current state (the top of
\* the stack, or the base board when the stack is empty) is the base board
\* with exactly those renewing sub-moves applied in order.
C40_StackInvariant ==
    (ret # None /\ ~panicked) =>
        \A renewing \in {RenewingPrefix(base_state, ToList(ret[1]))} :
            /\ Len(state_stack) = Len(renewing)
            /\ GetCurrentState(base_state, state_stack) = ApplyList(base_state, renewing)
            /\ Len(ToList(ret[1])) <= Len(renewing) + 1


\* C36: every game terminates: whatever generated sequences the players
\* choose, a board with is_ended() true is reached after finitely many turns.
C36_GameTerminates ==
    /\ [](g_phase = "playing" => GenActions(MoverBoard) # << >>)
    /\ <>(g_phase = "ended" /\ IsEnded(MoverBoard))

\* a game of 17 turns, the longest from EndGame, has ended
C36_Witness == g_start = EndGame /\ g_phase = "ended" /\ g_turns = 17

\* C35: mirror invariant of the game loop: after every turn, and until the
\* TUI finalizes its board, the two players' boards are swap_board images of
\* each other.
C35_Mirror ==
    (g_phase # "reported" \/ g_by = "play_loop") => g_ai = SwapBoard(g_human)

\* two turns of a game from new(4), both with a bonus sub-move
C35_Witness ==
    /\ g_start = New(4)
    /\ g_turns = 2
    /\ Slot(g_human, 6) >= 2
    /\ Slot(g_ai, 6) >= 2
    /\ g_ai = SwapBoard(g_human)

\* the stores of `after` hold at least what the stores of `before` hold
StoresGrow(before, after) ==
    /\ Slot(after, 6) >= Slot(before, 6)
    /\ Slot(after, 13) >= Slot(before, 13)

\* C37: stores only grow: on every board of a game a sub-move 0..5 never
\* decreases store 6 and never changes store 13, finalize_game never
\* decreases either store, and from step to step of a game neither store of
\* either player's board decreases.
C37_StoresOnlyGrow ==
    /\ [](\A h \in {g_human, g_ai} :
            /\ \A sub \in SubMoves :
                  ~EvaluateSubactionPanics(h, sub) =>
                      \A after \in {EvaluateSubaction(h, sub)} :
                          /\ Slot(after, 6) >= Slot(h, 6)
                          /\ Slot(after, 13) = Slot(h, 13)
            /\ ~FinalizeGamePanics(h) => StoresGrow(h, FinalizeGame(h)))
    /\ [][StoresGrow(g_human, g_human') /\ StoresGrow(g_ai, g_ai')]_vars

\* the house of 15 seeds was played: one seed went to the mover's store and
\* none to the other store
C37_Witness ==
    /\ g_start = PlayedFifteen
    /\ g_turns = 1
    /\ Slot(g_prev, 5) = 15
    /\ Slot(g_human, 5) = 0
    /\ Slot(g_human, 6) = Slot(g_prev, 6) + 1
    /\ Slot(g_human, 13) = Slot(g_prev, 13)

\* C39: play_loop reports the result from the human's side: the board that
\* is finalized and the message are those of the human player's board,
\* whichever player made the last move.
C39_HumanPerspective ==
    (g_phase = "reported" /\ g_by = "play_loop") =>
        /\ g_final = Some(FinalizeGame(g_human))
        /\ IsWon(g_human) = Some(P1win) => g_msg = "You won!"
        /\ IsWon(g_human) = Some(P2win) => g_msg = "You Lost!"

\* The rule of sarsa_loop: diff = houses[6] - houses[13], a tie if diff = 0
\* and a win of the current player if diff > 0.
StoreOutcome(h) ==
    LET diff == Slot(h, 6) - Slot(h, 13)
    IN  IF diff = 0 THEN Some(Tie)
        ELSE IF diff > 0 THEN Some(P1win)
        ELSE Some(P2win)

\* C38: outcome agrees with finalization: for an ended board, is_won before
\* finalize_game equals the comparison of store 6 with store 13 after it,
\* and equals is_won of the finalized board (computed, and as returned by a
\* call of is_won right after finalize_game).
C38_OutcomeAgrees ==
    /\ (b_op = "finalize_game" /\ ~b_panicked) =>
           /\ IsWon(b_prev) = StoreOutcome(board)
           /\ IsWon(b_prev) = IsWon(board)
    /\ (b_op = "is_won" /\ b_prev_op = "finalize_game") =>
           /\ won = IsWon(b_prev2)
           /\ won = StoreOutcome(board)

\* is_won called on a finalized board whose stores before the sweep gave the
\* game to the other player
C38_Witness ==
    /\ b_op = "is_won"
    /\ b_prev_op = "finalize_game"
    /\ won = Some(P2win)
    /\ Slot(b_prev2, 6) > Slot(b_prev2, 13)
    /\ Slot(board, 13) > Slot(board, 6)

\* the largest value among the choices
BestValue(choices) ==
    CHOOSE v \in {choices[k][2] : k \in 1 .. Len(choices)} :
        \A k \in 1 .. Len(choices) : choices[k][2] <= v

\* the first choice, in generator order, that has the largest value
FirstBest(choices) ==
    choices[CHOOSE k \in 1 .. Len(choices) :
                /\ choices[k][2] = BestValue(choices)
                /\ \A j \in 1 .. (k - 1) : choices[j][2] < BestValue(choices)]

\* C34: greedy choice: with epsilon = 0, pick_action returns the first
\* sequence in generator order among those whose resulting board has the
\* highest value in the table, an absent board counting as 0.5; the result
\* is a function of the board and the table alone.
C34_GreedyChoice ==
    (p_op = "pick_action" /\ p_epsilon = 0 /\ ~p_panicked) =>
        \A choices \in {Choices(p_state, values)} :
            p_ret = Some(FirstBest(choices))

\* on new(4) the board after the first turn, (0), has the value 0.0 and the
\* board after (3) too; every other board is absent: pick_action(0.0)
\* returns (1), the first of the turns worth 0.5
C34_Witness ==
    /\ p_op = "pick_action"
    /\ p_epsilon = 0
    /\ p_state = New4
    /\ DOMAIN values = {EvaluateAction(New4, Singleton(0)),
                        EvaluateAction(New4, Singleton(3))}
    /\ \A h \in DOMAIN values : values[h] = 0
    /\ p_ret = Some(<<Singleton(1), Half>>)

====
